---- MODULE Spec2Model ----
(***************************************************************************)
(* Model of src/elt/extract.py: the HTTP handler process_nba_stats and the *)
(* NBAStatsProcessor it drives.  One request is followed from the call of  *)
(* request.get_json() to the returned (body, status) tuple.  The external  *)
(* collaborators (request parser, statistics provider, storage client) are *)
(* the environment: each call either returns or raises.                    *)
(***************************************************************************)
EXTENDS Integers, Sequences, FiniteSets, TLC

VARIABLES
    pc,             \* position in process_nba_stats
    request_json,   \* local of process_nba_stats (line 62)
    project_id,     \* local (line 66)
    bucket_name,    \* local (line 67)
    players,        \* local (line 68)
    processor,      \* local (line 76): the NBAStatsProcessor
    results,        \* local (line 77)
    success_count,  \* local (line 78)
    idx,            \* position of the for-loop iterator (line 80), 1-based
    df,             \* local of process_player (line 46)
    storage,        \* the bucket: blob name -> object
    response,       \* the returned tuple: <<>> until return, then <<body, status>>
    clients,        \* number of storage.Client objects constructed so far
    log,            \* history: external calls in the order they were made
    writes,         \* history: blobs written, in order
    outcomes        \* history: per processed player, what fetch and upload did

vars == <<pc, request_json, project_id, bucket_name, players, processor, results,
          success_count, idx, df, storage, response, clients, log, writes, outcomes>>

----------------------------------------------------------------------------
(* Bounds *)

\* longest players list drawn for a request
MaxPlayers == 3

(* HTTP status codes returned by the handler *)
StatusOk == 200
StatusBadRequest == 400
StatusError == 500

(* The two player ids of the test data in __main__ *)
LeBronId == 2544
CurryId == 201939

----------------------------------------------------------------------------
(* JSON / Python values.  Every value carries its type tag, so truthiness   *)
(* and attribute lookup depend on the type as they do in Python.            *)

Null == [t |-> "null"]
\* a local variable that has not been assigned yet
Unbound == [t |-> "unbound"]
Str(s) == [t |-> "str", v |-> s]
Num(n) == [t |-> "num", v |-> n]
List(s) == [t |-> "list", v |-> s]
Obj(f) == [t |-> "obj", v |-> f]

\* Python truthiness, as used by `not request_json` and all([...])
Truthy(j) ==
    CASE j.t = "null" -> FALSE
      [] j.t = "str"  -> j.v /= ""
      [] j.t = "num"  -> j.v /= 0
      [] j.t = "list" -> Len(j.v) > 0
      [] j.t = "obj"  -> DOMAIN j.v /= {}

\* only a dict has .get; on anything else the attribute lookup raises
HasGet(j) == j.t = "obj"

\* dict.get(key, default)
PyGet(j, key, default) == IF key \in DOMAIN j.v THEN j.v[key] ELSE default

\* only a list is iterated by the for statement here; a number raises TypeError
Iterable(j) == j.t = "list"

Digit == <<"0", "1", "2", "3", "4", "5", "6", "7", "8", "9">>

RECURSIVE IntToStr(_)
IntToStr(n) ==
    IF n < 10 THEN Digit[n + 1] ELSE IntToStr(n \div 10) \o Digit[(n % 10) + 1]

\* what an f-string renders for {value}
Format(j) ==
    CASE j.t = "null" -> "None"
      [] j.t = "str"  -> j.v
      [] j.t = "num"  -> IntToStr(j.v)

----------------------------------------------------------------------------
(* Inputs *)

\* the two players of the test data, a second entry for the first id (with no
\* name), and an entry that is not an object
PlayerEntries ==
    { Obj([id |-> Num(LeBronId), name |-> Str("LeBron James")]),
      Obj([id |-> Num(CurryId), name |-> Str("Stephen Curry")]),
      Obj([id |-> Num(LeBronId)]),
      Num(7) }

PlayersValues ==
    { List(s) : s \in UNION { [1..n -> PlayerEntries] : n \in 0..MaxPlayers } }
    \cup { Num(5) }

ProjectValues == { Str(""), Str("your-project-id") }
BucketValues == { Str(""), Str("your-bucket-name") }

RequestKeys == {"project_id", "bucket_name", "players"}

ObjectBodies ==
    { Obj([k \in K |-> CASE k = "project_id" -> p
                         [] k = "bucket_name" -> b
                         [] k = "players" -> pl]) :
        K \in SUBSET RequestKeys, p \in ProjectValues, b \in BucketValues,
        pl \in PlayersValues }

\* what request.get_json() can return
Bodies == { Null, List(<<Num(1)>>) } \cup ObjectBodies

----------------------------------------------------------------------------
(* NBAStatsProcessor *)

\* __init__, lines 16-19
NBAStatsProcessor(pid, bname, client) ==
    [project_id |-> pid, bucket_name |-> bname, storage_client |-> client]

\* get_player_stats, lines 25-28: the provider's first table plus PLAYER_NAME
PlayerFrame(player_id, player_name) ==
    [stats |-> Format(player_id), PLAYER_NAME |-> player_name]

\* upload_to_gcs, lines 37-38: data.to_csv(index=False) uploaded as text/csv
CsvObject(data, writer) ==
    [csv_data |-> <<"PLAYER_NAME", data.stats, Format(data.PLAYER_NAME)>>,
     content_type |-> "text/csv",
     writer |-> writer]

\* variant of BlobName: the player id is left out of the key
BlobNameNoId(player_id) == "player_stats/" \o "_play_stats.csv"

\* process_player, line 50
BlobName(player_id) == "player_stats/" \o Format(player_id) \o "_play_stats.csv"

\* The message texts are English renderings of the Japanese literals; each
\* keeps the f-string shape prefix + {player_name} + suffix.

\* process_player, line 48
FetchFailedMessage(player_name) ==
    "player " \o Format(player_name) \o " data fetch failed"

\* process_player, line 52
ProcessedMessage(player_name) ==
    "player " \o Format(player_name) \o " data processed"

\* process_player, line 53
UploadFailedMessage(player_name) ==
    "player " \o Format(player_name) \o " data upload failed"

\* process_player, line 56
UnexpectedMessage(player_name, e) ==
    "player " \o Format(player_name) \o " error during processing: " \o e

----------------------------------------------------------------------------
(* process_nba_stats: the pieces of the handler *)

\* line 64
EmptyBodyResponse ==
    << [success |-> FALSE, error |-> "request body required"], StatusBadRequest >>

\* lines 71-74
MissingFieldResponse ==
    << [success |-> FALSE, error |-> "project_id, bucket_name, players required"],
       StatusBadRequest >>

\* lines 102-104
ErrorResponse(e) == << [success |-> FALSE, error |-> e], StatusError >>

\* lines 95-100
OkResponse(pl, count, res) ==
    << [success |-> TRUE, total_processed |-> Len(pl.v),
        success_count |-> count, results |-> res], StatusOk >>

\* line 70
AllRequired(pid, bname, pl) == Truthy(pid) /\ Truthy(bname) /\ Truthy(pl)

\* variant of AppendResult: the outcome is put at the front of the list
AppendResultFront(res, player, success, message) ==
    <<[player_id |-> PyGet(player, "id", Null),
       name |-> PyGet(player, "name", Null),
       success |-> success,
       message |-> message]>> \o res

\* lines 84-91
AppendResult(res, player, success, message) ==
    Append(res, [player_id |-> PyGet(player, "id", Null),
                 name |-> PyGet(player, "name", Null),
                 success |-> success,
                 message |-> message])

\* variant of CountSuccess: every processed player is counted
CountSuccessAlways(count, success) == count + 1

\* lines 92-93
CountSuccess(count, success) == IF success THEN count + 1 ELSE count

Player == players.v[idx]
PlayerId == PyGet(Player, "id", Null)
PlayerName == PyGet(Player, "name", Null)

Event(ev, i, client) == [ev |-> ev, i |-> i, client |-> client]

OldObject == [csv_data |-> <<"old">>, content_type |-> "text/csv", writer |-> 0]

----------------------------------------------------------------------------
Init ==
    /\ pc = "start"
    /\ request_json = Unbound
    /\ project_id = Unbound
    /\ bucket_name = Unbound
    /\ players = Unbound
    /\ processor = Unbound
    /\ results = <<>>
    /\ success_count = 0
    /\ idx = 1
    /\ df = Unbound
    /\ storage \in { <<>>, [k \in {BlobName(Num(LeBronId))} |-> OldObject] }
    /\ response = <<>>
    /\ clients = 0
    /\ log = <<>>
    /\ writes = <<>>
    /\ outcomes = <<>>

\* variant of Raise: no except clause, the exception leaves the handler
RaiseEscapes(e) ==
    /\ pc' = "escaped"
    /\ UNCHANGED response

\* the except clause of the handler, lines 102-104
Raise(e) ==
    /\ pc' = "done"
    /\ response' = ErrorResponse(e)

\* a return statement of the handler
Return(r) ==
    /\ pc' = "done"
    /\ response' = r

\* line 62: request.get_json() raises
GetJsonRaises ==
    /\ pc = "start"
    /\ Raise("get_json failed")
    /\ UNCHANGED <<request_json, project_id, bucket_name, players, processor,
                   results, success_count, idx, df, storage, clients, log, writes, outcomes>>

\* lines 62-74: read the body and validate it
Validate ==
    /\ pc = "start"
    /\ \E body \in Bodies :
        /\ request_json' = body
        /\ IF ~Truthy(body)
           THEN /\ Return(EmptyBodyResponse)
                /\ UNCHANGED <<project_id, bucket_name, players>>
           ELSE IF ~HasGet(body)
           THEN /\ Raise("object has no attribute 'get'")
                /\ UNCHANGED <<project_id, bucket_name, players>>
           ELSE /\ project_id' = PyGet(body, "project_id", Null)
                /\ bucket_name' = PyGet(body, "bucket_name", Null)
                /\ players' = PyGet(body, "players", List(<<>>))
                /\ IF AllRequired(project_id', bucket_name', players')
                   THEN pc' = "construct" /\ UNCHANGED response
                   ELSE Return(MissingFieldResponse)
    /\ UNCHANGED <<processor, results, success_count, idx, df, storage, clients,
                   log, writes, outcomes>>

\* lines 76-78, storage.Client(project=project_id) returns
Construct ==
    /\ pc = "construct"
    /\ clients' = clients + 1
    /\ processor' = NBAStatsProcessor(project_id, bucket_name, clients')
    /\ results' = <<>>
    /\ success_count' = 0
    /\ log' = Append(log, Event("construct", 0, clients'))
    /\ pc' = "loop"
    /\ UNCHANGED <<request_json, project_id, bucket_name, players, idx, df,
                   storage, response, writes, outcomes>>

\* line 76, storage.Client(project=project_id) raises
ConstructRaises ==
    /\ pc = "construct"
    /\ Raise("client construction failed")
    /\ UNCHANGED <<request_json, project_id, bucket_name, players, processor,
                   results, success_count, idx, df, storage, clients, log, writes, outcomes>>

\* lines 80-83 and 95-100: the head of the for loop
LoopHead ==
    /\ pc = "loop"
    /\ IF ~Iterable(players)
       THEN Raise("object is not iterable")
       ELSE IF idx > Len(players.v)
       THEN Return(OkResponse(players, success_count, results))
       ELSE IF ~HasGet(Player)
       THEN Raise("object has no attribute 'get'")
       ELSE pc' = "fetch" /\ UNCHANGED response
    /\ UNCHANGED <<request_json, project_id, bucket_name, players, processor,
                   results, success_count, idx, df, storage, clients, log, writes, outcomes>>

\* lines 84-93: process_player has returned (success, message)
Collect(success, message, fetched, uploaded) ==
    /\ results' = AppendResult(results, Player, success, message)
    /\ success_count' = CountSuccess(success_count, success)
    /\ outcomes' = Append(outcomes, [i |-> idx, fetch |-> fetched, upload |-> uploaded])
    /\ idx' = idx + 1
    /\ pc' = "loop"
    /\ df' = Unbound

\* lines 46, 21-28: the provider call returns a table
FetchOk ==
    /\ pc = "fetch"
    /\ df' = PlayerFrame(PlayerId, PlayerName)
    /\ log' = Append(log, Event("fetch", idx, 0))
    /\ pc' = "upload"
    /\ UNCHANGED <<request_json, project_id, bucket_name, players, processor,
                   results, success_count, idx, storage, response, clients, writes,
                   outcomes>>

\* variant of FetchNone: the `df is None` test is missing, the upload is attempted
FetchNoneUploads ==
    /\ pc = "fetch"
    /\ log' = log \o <<Event("fetch", idx, 0),
                       Event("upload", idx, processor.storage_client)>>
    /\ Collect(FALSE, UploadFailedMessage(PlayerName), "none", "fail")
    /\ UNCHANGED <<request_json, project_id, bucket_name, players, processor,
                   storage, response, clients, writes>>

\* lines 46-48, 29-31: the provider call fails, get_player_stats returns None
FetchNone ==
    /\ pc = "fetch"
    /\ log' = Append(log, Event("fetch", idx, 0))
    /\ Collect(FALSE, FetchFailedMessage(PlayerName), "none", "skipped")
    /\ UNCHANGED <<request_json, project_id, bucket_name, players, processor,
                   storage, response, clients, writes>>

\* variant of FetchRaises: process_player has no try/except, the exception
\* reaches the handler's except clause
FetchRaisesPropagates ==
    /\ pc = "fetch"
    /\ log' = Append(log, Event("fetch", idx, 0))
    /\ Raise("boom")
    /\ UNCHANGED <<request_json, project_id, bucket_name, players, processor,
                   results, success_count, idx, df, storage, clients, writes,
                   outcomes>>

\* lines 46, 55-56: an exception leaves get_player_stats (raised in its handler)
FetchRaises ==
    /\ pc = "fetch"
    /\ log' = Append(log, Event("fetch", idx, 0))
    /\ Collect(FALSE, UnexpectedMessage(PlayerName, "boom"), "raise", "skipped")
    /\ UNCHANGED <<request_json, project_id, bucket_name, players, processor,
                   storage, response, clients, writes>>

\* variant of UploadOk: a storage client is constructed for the upload
UploadOkNewClient ==
    /\ pc = "upload"
    /\ clients' = clients + 1
    /\ log' = log \o <<Event("construct", 0, clients'),
                       Event("upload", idx, clients')>>
    /\ storage' = [k \in DOMAIN storage \cup {BlobName(PlayerId)} |->
                     IF k = BlobName(PlayerId) THEN CsvObject(df, idx) ELSE storage[k]]
    /\ writes' = Append(writes, [key |-> BlobName(PlayerId), i |-> idx])
    /\ Collect(TRUE, ProcessedMessage(PlayerName), "ok", "ok")
    /\ UNCHANGED <<request_json, project_id, bucket_name, players, processor,
                   response>>

\* lines 50-52, 35-39: the blob is written
UploadOk ==
    /\ pc = "upload"
    /\ log' = Append(log, Event("upload", idx, processor.storage_client))
    /\ storage' = [k \in DOMAIN storage \cup {BlobName(PlayerId)} |->
                     IF k = BlobName(PlayerId) THEN CsvObject(df, idx) ELSE storage[k]]
    /\ writes' = Append(writes, [key |-> BlobName(PlayerId), i |-> idx])
    /\ Collect(TRUE, ProcessedMessage(PlayerName), "ok", "ok")
    /\ UNCHANGED <<request_json, project_id, bucket_name, players, processor,
                   response, clients>>

\* variant of UploadFails: the return value of upload_to_gcs is ignored
UploadFailsReportedOk ==
    /\ pc = "upload"
    /\ log' = Append(log, Event("upload", idx, processor.storage_client))
    /\ Collect(TRUE, ProcessedMessage(PlayerName), "ok", "fail")
    /\ UNCHANGED <<request_json, project_id, bucket_name, players, processor,
                   storage, response, clients, writes>>

\* variant of UploadFails: the failed upload is tried a second time
UploadFailsRetry ==
    /\ pc = "upload"
    /\ log' = log \o <<Event("upload", idx, processor.storage_client),
                       Event("upload", idx, processor.storage_client)>>
    /\ Collect(FALSE, UploadFailedMessage(PlayerName), "ok", "fail")
    /\ UNCHANGED <<request_json, project_id, bucket_name, players, processor,
                   storage, response, clients, writes>>

\* lines 50-53, 40-42: the write fails, upload_to_gcs returns False
UploadFails ==
    /\ pc = "upload"
    /\ log' = Append(log, Event("upload", idx, processor.storage_client))
    /\ Collect(FALSE, UploadFailedMessage(PlayerName), "ok", "fail")
    /\ UNCHANGED <<request_json, project_id, bucket_name, players, processor,
                   storage, response, clients, writes>>

\* lines 51, 55-56: an exception leaves upload_to_gcs (raised in its handler)
UploadRaises ==
    /\ pc = "upload"
    /\ log' = Append(log, Event("upload", idx, processor.storage_client))
    /\ Collect(FALSE, UnexpectedMessage(PlayerName, "boom"), "ok", "raise")
    /\ UNCHANGED <<request_json, project_id, bucket_name, players, processor,
                   storage, response, clients, writes>>

Next ==
    \/ GetJsonRaises
    \/ Validate
    \/ Construct
    \/ ConstructRaises
    \/ LoopHead
    \/ FetchOk
    \/ FetchNone
    \/ FetchRaises
    \/ UploadOk
    \/ UploadFails
    \/ UploadRaises

Spec == Init /\ [][Next]_vars

TypeOK ==
    /\ pc \in {"start", "construct", "loop", "fetch", "upload", "done"}
    /\ Len(response) \in {0, 2}
    /\ idx \in 1..(MaxPlayers + 1)
    /\ success_count \in 0..MaxPlayers
    /\ clients \in 0..1

----------------------------------------------------------------------------
(* Vocabulary of the properties *)

Done == pc = "done"
Body == response[1]
Status == response[2]

Range(s) == { s[i] : i \in DOMAIN s }

\* the value the request body holds for a key; None when it holds none
BodyField(k) ==
    IF request_json.t = "obj" /\ k \in DOMAIN request_json.v
    THEN request_json.v[k]
    ELSE Null

\* get_json() returned a body (it did not raise)
BodyRead == request_json /= Unbound

InputPlayers == BodyField("players")
IdAt(i) == PyGet(InputPlayers.v[i], "id", Null)
NameAt(i) == PyGet(InputPlayers.v[i], "name", Null)

\* a non-empty body with truthy project_id, bucket_name and players
PassesValidation ==
    /\ BodyRead
    /\ Truthy(request_json)
    /\ \A k \in RequestKeys : Truthy(BodyField(k))

\* a missing or empty body, or one of the three fields absent or falsy
FailsValidation ==
    /\ BodyRead
    /\ \/ ~Truthy(request_json)
       \/ \E k \in RequestKeys : ~Truthy(BodyField(k))

ExpectedKey(id) == "player_stats/" \o Format(id) \o "_play_stats.csv"

Processed(i) == \E o \in Range(outcomes) : o.i = i
OutcomeOf(i) == CHOOSE o \in Range(outcomes) : o.i = i
Succeeded(o) == o.fetch = "ok" /\ o.upload = "ok"

MessageFor(o, name) ==
    CASE o.fetch = "none"   -> FetchFailedMessage(name)
      [] o.fetch = "raise"  -> UnexpectedMessage(name, "boom")
      [] o.upload = "ok"    -> ProcessedMessage(name)
      [] o.upload = "fail"  -> UploadFailedMessage(name)
      [] o.upload = "raise" -> UnexpectedMessage(name, "boom")

FetchEvents == { p \in DOMAIN log : log[p].ev = "fetch" }
UploadEvents == { p \in DOMAIN log : log[p].ev = "upload" }
ConstructEvents == { p \in DOMAIN log : log[p].ev = "construct" }

SuccessesIn(res) == Cardinality({ i \in DOMAIN res : res[i].success })

\* how many entries at the front of the list are objects
LeadingObjects(s) ==
    Cardinality({ n \in 1..Len(s) : \A i \in 1..n : HasGet(s[i]) })

AggregateKeys == {"success", "total_processed", "success_count", "results"}
ErrorKeys == {"success", "error"}

----------------------------------------------------------------------------
(* C1 *)

AggregateInvariant ==
    /\ "results" \in DOMAIN Body
    /\ Len(Body.results) = Body.total_processed
    /\ Body.total_processed = Len(InputPlayers.v)
    /\ Body.success_count = SuccessesIn(Body.results)

\* C1 as stated: every request that passes validation is answered with a body
\* in which len(results) = total_processed = len(players) and success_count is
\* the number of results whose success is true.
C1_Original == (Done /\ PassesValidation) => AggregateInvariant

\* C1 as amended: every request that passes validation and is answered with
\* status 200 has len(results) = total_processed = len(players) and
\* success_count = the number of results whose success is true.
C1_Amended ==
    (Done /\ PassesValidation /\ Status = StatusOk) => AggregateInvariant

C1_Witness ==
    /\ Done /\ PassesValidation /\ Status = StatusOk
    /\ Len(Body.results) >= 2
    /\ Body.success_count > 0
    /\ Body.success_count < Len(Body.results)

----------------------------------------------------------------------------
(* C2 *)

\* C2: results preserves input order.  At every moment, and in the 200 body,
\* results[i] carries the id and name of players[i] and the success flag and
\* message that the processing of players[i] itself produced.
C2_OrderPreserved ==
    /\ \A i \in DOMAIN results :
        /\ Iterable(InputPlayers)
        /\ i <= Len(InputPlayers.v)
        /\ results[i].player_id = IdAt(i)
        /\ results[i].name = NameAt(i)
        /\ Processed(i)
        /\ results[i].success = Succeeded(OutcomeOf(i))
        /\ results[i].message = MessageFor(OutcomeOf(i), NameAt(i))
    /\ (Done /\ Status = StatusOk) =>
        /\ Body.results = results
        /\ Len(results) = Len(InputPlayers.v)

C2_Witness ==
    /\ Done /\ Status = StatusOk
    /\ Len(Body.results) >= 2
    /\ Body.results[1].player_id = Body.results[2].player_id
    /\ Body.results[1].success /= Body.results[2].success

----------------------------------------------------------------------------
(* C3 *)

\* C3 as stated: a request whose body is missing or empty, or in which one of
\* project_id, bucket_name, players is absent or falsy, is answered 400 with
\* {success: false, error}, and no client is constructed, nothing is fetched
\* and nothing is written.
C3_Original ==
    (Done /\ FailsValidation) =>
        /\ Status = StatusBadRequest
        /\ DOMAIN Body = ErrorKeys
        /\ Body.success = FALSE
        /\ clients = 0
        /\ log = <<>>
        /\ writes = <<>>

----------------------------------------------------------------------------
(* C4 *)

\* C4: per-player failures never abort the batch.  Once the client exists and
\* players is a list, every entry up to the first one that is not an object is
\* fetched and gets its result whatever the earlier players' outcomes were, each
\* result is decided by that player's own fetch and upload, and the status is
\* 200 exactly when no entry is malformed.
C4_Isolation ==
    (Done /\ PassesValidation /\ processor /= Unbound /\ Iterable(InputPlayers)) =>
        LET n == LeadingObjects(InputPlayers.v) IN
        /\ Len(results) = n
        /\ { log[p].i : p \in FetchEvents } = 1..n
        /\ \A i \in 1..n : Processed(i) /\ results[i].success = Succeeded(OutcomeOf(i))
        /\ (n = Len(InputPlayers.v)) => Status = StatusOk
        /\ (n < Len(InputPlayers.v)) => Status = StatusError

C4_Witness ==
    /\ Done /\ Status = StatusOk
    /\ Len(outcomes) = 3
    /\ outcomes[1].fetch = "none"
    /\ outcomes[2].upload = "raise"
    /\ Succeeded(outcomes[3])

----------------------------------------------------------------------------
(* C5 *)

\* C5: a player whose fetch returns None gets success = false with the
\* fetch-failure message, and no upload is attempted and nothing is written
\* for that player.
C5_FetchFailure ==
    \A o \in Range(outcomes) :
        o.fetch = "none" =>
            /\ o.i \in DOMAIN results
            /\ results[o.i].success = FALSE
            /\ results[o.i].message = FetchFailedMessage(NameAt(o.i))
            /\ \A p \in UploadEvents : log[p].i /= o.i
            /\ \A p \in DOMAIN writes : writes[p].i /= o.i

C5_Witness ==
    /\ Done /\ Status = StatusOk
    /\ \E o \in Range(outcomes) : o.fetch = "none"
    /\ \E o \in Range(outcomes) : Succeeded(o)

----------------------------------------------------------------------------
(* C6 *)

\* C6: success is true exactly when fetch and upload both succeeded; a failed
\* upload after a successful fetch gives success = false with the
\* upload-failure message, which differs from the fetch-failure message; when
\* both succeed that player wrote exactly one object, at
\* player_stats/{id}_play_stats.csv.
C6_SuccessIffBoth ==
    \A i \in DOMAIN results :
        /\ Processed(i)
        /\ results[i].success <=> Succeeded(OutcomeOf(i))
        /\ (OutcomeOf(i).fetch = "ok" /\ OutcomeOf(i).upload = "fail") =>
            /\ results[i].success = FALSE
            /\ results[i].message = UploadFailedMessage(NameAt(i))
            /\ results[i].message /= FetchFailedMessage(NameAt(i))
        /\ Succeeded(OutcomeOf(i)) =>
            /\ Cardinality({ p \in DOMAIN writes : writes[p].i = i }) = 1
            /\ \A p \in DOMAIN writes :
                writes[p].i = i => writes[p].key = ExpectedKey(IdAt(i))
        /\ ~Succeeded(OutcomeOf(i)) =>
            \A p \in DOMAIN writes : writes[p].i /= i

C6_Witness ==
    /\ Done /\ Status = StatusOk
    /\ \E o \in Range(outcomes) : o.fetch = "ok" /\ o.upload = "fail"
    /\ \E o \in Range(outcomes) : Succeeded(o)

----------------------------------------------------------------------------
(* C7 *)

\* an exception was raised inside the handler
ExceptionRaised ==
    \/ ~BodyRead
    \/ Truthy(request_json) /\ ~HasGet(request_json)
    \/ PassesValidation /\ processor = Unbound
    \/ PassesValidation /\ ~Iterable(InputPlayers)
    \/ /\ PassesValidation
       /\ Iterable(InputPlayers)
       /\ \E i \in DOMAIN InputPlayers.v : ~HasGet(InputPlayers.v[i])

\* C7: the handler always ends by returning (body, status) with status 200,
\* 400 or 500 and no exception leaves it; an exception raised inside it gives
\* 500 {success: false, error}; a 400 or 500 body has no results and a 200 body
\* has success = true, total_processed, success_count and results.
C7_StructuredResponse ==
    /\ pc /= "escaped"
    /\ Done \/ ENABLED Next
    /\ (Len(response) = 2) <=> Done
    /\ Done =>
        /\ Status \in {StatusOk, StatusBadRequest, StatusError}
        /\ (Status = StatusOk) =>
            /\ DOMAIN Body = AggregateKeys
            /\ Body.success = TRUE
        /\ (Status /= StatusOk) =>
            /\ DOMAIN Body = ErrorKeys
            /\ Body.success = FALSE
        /\ ExceptionRaised => Status = StatusError
        /\ (Status = StatusError) => ExceptionRaised

C7_Witness ==
    /\ Done /\ Status = StatusError
    /\ Len(results) >= 1
    /\ writes /= <<>>

----------------------------------------------------------------------------
(* C8 *)

\* C8 as stated: after the request returns, every player whose fetch
\* succeeded has an object at player_stats/{player_id}_play_stats.csv.
C8_Original ==
    Done =>
        \A o \in Range(outcomes) :
            o.fetch = "ok" => ExpectedKey(IdAt(o.i)) \in DOMAIN storage

\* C8 as amended: after the request returns, every player whose fetch and
\* upload both succeeded has a text/csv object at
\* player_stats/{player_id}_play_stats.csv, written by that player or by a
\* later player with the same key, and the request wrote no other object.
C8_Amended ==
    Done =>
        /\ \A o \in Range(outcomes) :
            Succeeded(o) =>
                LET k == ExpectedKey(IdAt(o.i)) IN
                /\ k \in DOMAIN storage
                /\ storage[k].content_type = "text/csv"
                /\ storage[k].writer >= o.i
        /\ \A k \in DOMAIN storage :
            storage[k].writer /= 0 =>
                /\ Processed(storage[k].writer)
                /\ Succeeded(OutcomeOf(storage[k].writer))
                /\ k = ExpectedKey(IdAt(storage[k].writer))

C8_Witness ==
    /\ Done /\ Status = StatusOk
    /\ \E o \in Range(outcomes) : Succeeded(o)
    /\ \E o \in Range(outcomes) :
        /\ o.fetch = "ok" /\ o.upload = "fail"
        /\ ExpectedKey(IdAt(o.i)) \notin DOMAIN storage

----------------------------------------------------------------------------
(* C9 *)

\* C9: processing is sequential in input order.  The storage client is
\* constructed once, after validation and before the first fetch; fetches are
\* made for players 1, 2, ... in that order; the upload for a player directly
\* follows that player's fetch and precedes the next player's fetch; every
\* upload uses the one client.
C9_Sequential ==
    /\ clients <= 1
    /\ Cardinality(ConstructEvents) = clients
    /\ (log /= <<>>) => (log[1].ev = "construct" /\ PassesValidation)
    /\ { log[p].i : p \in FetchEvents } = 1..Cardinality(FetchEvents)
    /\ \A p, q \in FetchEvents \cup UploadEvents :
        p < q =>
            \/ log[p].i < log[q].i
            \/ /\ log[p].i = log[q].i
               /\ log[p].ev = "fetch"
               /\ log[q].ev = "upload"
    /\ \A p \in UploadEvents :
        /\ p - 1 \in FetchEvents
        /\ log[p - 1].i = log[p].i
        /\ log[p].client = log[1].client
        /\ processor.storage_client = log[1].client

C9_Witness ==
    /\ Done /\ Status = StatusOk
    /\ Cardinality(UploadEvents) >= 2
    /\ Cardinality(FetchEvents) = 3

----------------------------------------------------------------------------
(* C10 *)

\* the last occurrence that wrote key k
LastWriter(k) ==
    CHOOSE i \in DOMAIN outcomes :
        /\ Succeeded(OutcomeOf(i)) /\ ExpectedKey(IdAt(i)) = k
        /\ \A j \in DOMAIN outcomes :
            (Succeeded(OutcomeOf(j)) /\ ExpectedKey(IdAt(j)) = k) => j <= i

\* C10: in a request answered 200 every player entry is fetched exactly once
\* and uploaded at most once: fetch attempts = len(players), upload attempts =
\* players whose fetch succeeded, successful writes = success_count; each
\* occurrence of an id writes the same key and the object left there is the
\* one written by the last occurrence that succeeded.
C10_NoRetry ==
    (Done /\ Status = StatusOk) =>
        /\ Cardinality(FetchEvents) = Len(InputPlayers.v)
        /\ \A i \in DOMAIN InputPlayers.v :
            /\ Cardinality({ p \in FetchEvents : log[p].i = i }) = 1
            /\ Cardinality({ p \in UploadEvents : log[p].i = i }) <= 1
        /\ Cardinality(UploadEvents)
             = Cardinality({ o \in Range(outcomes) : o.fetch = "ok" })
        /\ Len(writes) = Body.success_count
        /\ \A p \in DOMAIN writes :
            LET k == writes[p].key IN
            /\ k = ExpectedKey(IdAt(writes[p].i))
            /\ k \in DOMAIN storage
            /\ storage[k].writer = LastWriter(k)
            /\ storage[k].csv_data[3] = Format(NameAt(LastWriter(k)))

C10_Witness ==
    /\ Done /\ Status = StatusOk
    /\ Len(writes) = 2
    /\ writes[1].key = writes[2].key
    /\ NameAt(writes[1].i) /= NameAt(writes[2].i)
    /\ Len(outcomes) = 3
    /\ ~Succeeded(outcomes[3])
    /\ IdAt(3) = IdAt(1)
====
